---- MODULE Spec2Model ----
(***************************************************************************)
(* Model of recognizeEq.c (the second, complete listing: lines 181-378):   *)
(* the recursive-descent recognizer for equations, the variable counter    *)
(* and the driver loop recognizeEquations.                                 *)
(*                                                                         *)
(* A token list is a sequence of tokens.  A cursor (List, a pointer to a   *)
(* list node) is an index into the sequence; NULL is Len(list) + 1.  The   *)
(* matchers all work on the one cursor tl1 of the driver, which they reach *)
(* through lp.  The composite matchers run as frames of a call stack, one  *)
(* step per primitive call or return.                                      *)
(***************************************************************************)
EXTENDS Integers, Sequences, FiniteSets, TLC

\* Longest input line, in tokens.
MaxLen == 5
\* Largest value of a Number token.
MaxNum == 2

VARIABLES
    pc,               \* place of recognizeEquations: "read", "parse", "reported", "done"
                      \* ("count", "counted" when determineVariables is run on its own)
    tl,               \* the token list of the current line
    tl1,              \* the cursor (*lp in the matchers)
    biggestExponent,  \* the global int biggestExponent
    stack,            \* call stack of the composite matchers, innermost last
    ret,              \* the return just made by a composite matcher, NoRet once the caller went on
    prim,             \* the primitive call made by the last step, NoPrim when none
    output            \* what the driver printed for the current line

vars == <<pc, tl, tl1, biggestExponent, stack, ret, prim, output>>

(***************************************************************************)
(* Tokens (scanner.h: TokenType tt, union Token t).  The scanner yields    *)
(* numbers as non-negative ints, identifiers as strings and symbols as     *)
(* single characters.  The union is written as a record with a field per   *)
(* member; the code reads only the member that tt names.                   *)
(***************************************************************************)
Numbers == 0..MaxNum
Identifiers == {"x", "y"}
Symbols == {"+", "-", "=", "^"}

Num(n) == [tt |-> "Number", number |-> n, identifier |-> "", symbol |-> ""]
Ident(s) == [tt |-> "Identifier", number |-> 0, identifier |-> s, symbol |-> ""]
Sym(c) == [tt |-> "Symbol", number |-> 0, identifier |-> "", symbol |-> c]

Tokens == {Num(n) : n \in Numbers} \cup {Ident(s) : s \in Identifiers}
              \cup {Sym(c) : c \in Symbols}

TokenLists == UNION {[1..n -> Tokens] : n \in 0..MaxLen}

\* The cursor value NULL of a list l.
Null(l) == Len(l) + 1

(***************************************************************************)
(* The primitive matchers.  Each takes the list and the cursor and yields  *)
(* the returned int r and the cursor afterwards.                           *)
(***************************************************************************)
acceptNumber(l, p) ==
    IF p /= Null(l) /\ l[p].tt = "Number"
    THEN [r |-> 1, lp |-> p + 1]
    ELSE [r |-> 0, lp |-> p]

acceptIdentifier(l, p) ==
    IF p /= Null(l) /\ l[p].tt = "Identifier"
    THEN [r |-> 1, lp |-> p + 1]
    ELSE [r |-> 0, lp |-> p]

\* Variant: the symbol is not compared.
acceptCharacterAnySymbol(l, p, c) ==
    IF p /= Null(l) /\ l[p].tt = "Symbol"
    THEN [r |-> 1, lp |-> p + 1]
    ELSE [r |-> 0, lp |-> p]

acceptCharacter(l, p, c) ==
    IF p /= Null(l) /\ l[p].tt = "Symbol" /\ l[p].symbol = c
    THEN [r |-> 1, lp |-> p + 1]
    ELSE [r |-> 0, lp |-> p]

\* Variant: the value read is stored without comparing it.
valueNumberLast(l, p, b) ==
    IF p /= Null(l) /\ l[p].tt = "Number"
    THEN [r |-> 1, lp |-> p + 1, be |-> l[p].number]
    ELSE [r |-> 0, lp |-> p, be |-> b]

\* valueNumber also yields biggestExponent afterwards (b is its value before).
valueNumber(l, p, b) ==
    IF p /= Null(l) /\ l[p].tt = "Number"
    THEN [r |-> 1, lp |-> p + 1,
          be |-> IF l[p].number > b THEN l[p].number ELSE b]
    ELSE [r |-> 0, lp |-> p, be |-> b]

(***************************************************************************)
(* determineVariables: the while loop over the list, with the retained     *)
(* spelling string.  NullString stands for the char pointer NULL (no       *)
(* identifier has the empty spelling); strcmp(a, b) is non-zero exactly    *)
(* when the spellings differ.                                              *)
(***************************************************************************)
NullString == ""

strcmp(a, b) == IF a = b THEN 0 ELSE 1

RECURSIVE determineVariablesLoop(_, _, _)
determineVariablesLoop(l, p, string) ==
    IF p = Null(l)
    THEN IF string = NullString THEN 0 ELSE 1
    ELSE IF l[p].tt = "Identifier"
         THEN LET s == IF string = NullString THEN l[p].identifier ELSE string
              IN  IF strcmp(s, l[p].identifier) /= 0
                  THEN 2
                  ELSE determineVariablesLoop(l, p + 1, s)
         ELSE determineVariablesLoop(l, p + 1, string)

\* Variant: the spellings are not compared.
determineVariablesNoCompare(l) ==
    IF \E p \in 1..Len(l) : l[p].tt = "Identifier" THEN 1 ELSE 0

determineVariables(l) == determineVariablesLoop(l, 1, NullString)

(***************************************************************************)
(* The call stack.  A frame holds the matcher, its place in the matcher's  *)
(* body, and (history, for stating the contracts) the cursor and           *)
(* biggestExponent at the call.                                            *)
(***************************************************************************)
NoRet == [fn |-> "none", r |-> 0, lp0 |-> 0, be0 |-> 0]
NoPrim == [fn |-> "none", c |-> "", r |-> 0]

Prim(fn, c, r) == [fn |-> fn, c |-> c, r |-> r]

Frame(fn, p, b) == [fn |-> fn, pc |-> "entry", lp0 |-> p, be0 |-> b]

Top == stack[Len(stack)]

Running(fn, at) == stack /= <<>> /\ Top.fn = fn /\ Top.pc = at

\* Go on in the running matcher at place `at`.
Goto(at) ==
    /\ stack' = [stack EXCEPT ![Len(stack)].pc = at]
    /\ ret' = NoRet

\* Call matcher fn with the cursor at p; the caller goes on at `at` afterwards.
Call(at, fn, p, b) ==
    /\ stack' = Append([stack EXCEPT ![Len(stack)].pc = at], Frame(fn, p, b))
    /\ ret' = NoRet

\* The running matcher returns r.
Return(r) ==
    /\ stack' = SubSeq(stack, 1, Len(stack) - 1)
    /\ ret' = [fn |-> Top.fn, r |-> r, lp0 |-> Top.lp0, be0 |-> Top.be0]

(***************************************************************************)
(* acceptExponent (lines 245-260).                                         *)
(***************************************************************************)
\* Variant: the '-' after the '^' is skipped and the number taken.
acceptExponentSignCoerced ==
    LET a == acceptCharacter(tl, tl1, "-")
    IN  /\ tl1' = a.lp
        /\ prim' = Prim("acceptCharacter", "-", a.r)
        /\ Goto("value")

\* Variant: on the '-' the cursor is put back where the call found it.
acceptExponentSignRestoring ==
    LET a == acceptCharacter(tl, tl1, "-")
    IN  /\ tl1' = IF a.r = 1 THEN Top.lp0 ELSE a.lp
        /\ prim' = Prim("acceptCharacter", "-", a.r)
        /\ IF a.r = 1 THEN Return(0) ELSE Goto("value")

\* "only accepts natural numbers": a '-' after the '^' is consumed and rejected.
acceptExponentSign ==
    LET a == acceptCharacter(tl, tl1, "-")
    IN  /\ tl1' = a.lp
        /\ prim' = Prim("acceptCharacter", "-", a.r)
        /\ IF a.r = 1 THEN Return(0) ELSE Goto("value")

acceptExponent ==
    /\ UNCHANGED <<pc, tl, output>>
    /\ \/ /\ Running("acceptExponent", "entry")          \* line 248
          /\ LET a == acceptCharacter(tl, tl1, "^")
             IN  /\ tl1' = a.lp
                 /\ prim' = Prim("acceptCharacter", "^", a.r)
                 /\ IF a.r = 1 THEN Goto("sign") ELSE Return(1)
          /\ UNCHANGED biggestExponent
       \/ /\ Running("acceptExponent", "sign")           \* lines 250-252
          /\ acceptExponentSign
          /\ UNCHANGED biggestExponent
       \/ /\ Running("acceptExponent", "value")          \* line 254
          /\ LET v == valueNumber(tl, tl1, biggestExponent)
             IN  /\ tl1' = v.lp
                 /\ biggestExponent' = v.be
                 /\ prim' = Prim("valueNumber", "", v.r)
                 /\ Return(v.r)

(***************************************************************************)
(* acceptTerm (lines 263-278).                                             *)
(***************************************************************************)
acceptTerm ==
    /\ UNCHANGED <<pc, tl, output, biggestExponent>>
    /\ \/ /\ Running("acceptTerm", "entry")              \* line 264
          /\ LET a == acceptNumber(tl, tl1)
             IN  /\ tl1' = a.lp
                 /\ prim' = Prim("acceptNumber", "", a.r)
                 /\ IF a.r = 1 THEN Goto("numId") ELSE Goto("id")
       \/ /\ Running("acceptTerm", "numId")              \* line 265
          /\ LET a == acceptIdentifier(tl, tl1)
             IN  /\ tl1' = a.lp
                 /\ prim' = Prim("acceptIdentifier", "", a.r)
                 /\ IF a.r = 1
                    THEN Call("numIdExp", "acceptExponent", a.lp, biggestExponent)
                    ELSE Return(1)                       \* line 269
       \/ /\ Running("acceptTerm", "id")                 \* line 271
          /\ LET a == acceptIdentifier(tl, tl1)
             IN  /\ tl1' = a.lp
                 /\ prim' = Prim("acceptIdentifier", "", a.r)
                 /\ IF a.r = 1
                    THEN Call("idExp", "acceptExponent", a.lp, biggestExponent)
                    ELSE Return(0)                       \* line 275
       \/ /\ Running("acceptTerm", "numIdExp")           \* line 267
          /\ Return(ret.r)
          /\ prim' = NoPrim
          /\ UNCHANGED tl1
       \/ /\ Running("acceptTerm", "idExp")              \* line 273
          /\ Return(ret.r)
          /\ prim' = NoPrim
          /\ UNCHANGED tl1

(***************************************************************************)
(* acceptExpression (lines 281-301).                                       *)
(***************************************************************************)
\* Variant: a leading '+' is taken as well.
acceptExpressionSignEither ==
    LET m == acceptCharacter(tl, tl1, "-")
        a == IF m.r = 1 THEN m ELSE acceptCharacter(tl, tl1, "+")
    IN  /\ tl1' = a.lp
        /\ prim' = Prim("acceptCharacter", IF m.r = 1 THEN "-" ELSE "+", a.r)
        /\ IF a.r = 1
           THEN Call("negTerm", "acceptTerm", a.lp, biggestExponent)
           ELSE Call("firstTerm", "acceptTerm", a.lp, biggestExponent)

\* The optional leading '-', then the first term.
acceptExpressionSign ==
    LET a == acceptCharacter(tl, tl1, "-")
    IN  /\ tl1' = a.lp
        /\ prim' = Prim("acceptCharacter", "-", a.r)
        /\ IF a.r = 1
           THEN Call("negTerm", "acceptTerm", a.lp, biggestExponent)
           ELSE Call("firstTerm", "acceptTerm", a.lp, biggestExponent)

acceptExpression ==
    /\ UNCHANGED <<pc, tl, output, biggestExponent>>
    /\ \/ /\ Running("acceptExpression", "entry")        \* lines 284-290
          /\ acceptExpressionSign
       \/ /\ Running("acceptExpression", "negTerm")      \* lines 286-288
          /\ IF ret.r = 0 THEN Return(0) ELSE Goto("plus")
          /\ prim' = NoPrim
          /\ UNCHANGED tl1
       \/ /\ Running("acceptExpression", "firstTerm")    \* lines 290-292
          /\ IF ret.r = 0 THEN Return(0) ELSE Goto("plus")
          /\ prim' = NoPrim
          /\ UNCHANGED tl1
       \/ /\ Running("acceptExpression", "plus")         \* line 294, left of ||
          /\ LET a == acceptCharacter(tl, tl1, "+")
             IN  /\ tl1' = a.lp
                 /\ prim' = Prim("acceptCharacter", "+", a.r)
                 /\ IF a.r = 1
                    THEN Call("nextTerm", "acceptTerm", a.lp, biggestExponent)
                    ELSE Goto("minus")
       \/ /\ Running("acceptExpression", "minus")        \* line 294, right of ||
          /\ LET a == acceptCharacter(tl, tl1, "-")
             IN  /\ tl1' = a.lp
                 /\ prim' = Prim("acceptCharacter", "-", a.r)
                 /\ IF a.r = 1
                    THEN Call("nextTerm", "acceptTerm", a.lp, biggestExponent)
                    ELSE Return(1)                       \* line 300
       \/ /\ Running("acceptExpression", "nextTerm")     \* lines 296-298
          /\ IF ret.r = 0 THEN Return(0) ELSE Goto("plus")
          /\ prim' = NoPrim
          /\ UNCHANGED tl1

\* Variant: the '=' and the right-hand side are optional (as in lines 121-134).
acceptEquationOptionalEq ==
    /\ UNCHANGED <<pc, tl, output, biggestExponent>>
    /\ \/ /\ Running("acceptEquation", "entry")
          /\ Call("left", "acceptExpression", tl1, biggestExponent)
          /\ prim' = NoPrim
          /\ UNCHANGED tl1
       \/ /\ Running("acceptEquation", "left")
          /\ IF ret.r = 0
             THEN /\ Return(0)
                  /\ prim' = NoPrim
                  /\ UNCHANGED tl1
             ELSE LET a == acceptCharacter(tl, tl1, "=")
                  IN  /\ tl1' = a.lp
                      /\ prim' = Prim("acceptCharacter", "=", a.r)
                      /\ IF a.r = 1
                         THEN Call("right", "acceptExpression", a.lp, biggestExponent)
                         ELSE Return(1)
       \/ /\ Running("acceptEquation", "right")
          /\ Return(IF ret.r = 0 THEN 0 ELSE 1)
          /\ prim' = NoPrim
          /\ UNCHANGED tl1

(***************************************************************************)
(* acceptEquation (lines 304-306):                                         *)
(*   acceptExpression(lp) && acceptCharacter(lp,'=') && acceptExpression(lp) *)
(***************************************************************************)
acceptEquation ==
    /\ UNCHANGED <<pc, tl, output, biggestExponent>>
    /\ \/ /\ Running("acceptEquation", "entry")
          /\ Call("left", "acceptExpression", tl1, biggestExponent)
          /\ prim' = NoPrim
          /\ UNCHANGED tl1
       \/ /\ Running("acceptEquation", "left")
          /\ IF ret.r = 0
             THEN /\ Return(0)
                  /\ prim' = NoPrim
                  /\ UNCHANGED tl1
             ELSE LET a == acceptCharacter(tl, tl1, "=")
                  IN  /\ tl1' = a.lp
                      /\ prim' = Prim("acceptCharacter", "=", a.r)
                      /\ IF a.r = 1
                         THEN Call("right", "acceptExpression", a.lp, biggestExponent)
                         ELSE Return(0)
       \/ /\ Running("acceptEquation", "right")
          /\ Return(IF ret.r = 0 THEN 0 ELSE 1)
          /\ prim' = NoPrim
          /\ UNCHANGED tl1

(***************************************************************************)
(* recognizeEquations (lines 339-378).                                     *)
(***************************************************************************)
NoOutput == [kind |-> "none", degree |-> 0]
NotAnEquation == [kind |-> "this is not an equation", degree |-> 0]
NotInOneVariable == [kind |-> "this is an equation, but not in 1 variable", degree |-> 0]
InOneVariable(d) == [kind |-> "this is an equation in 1 variable", degree |-> d]

recognizeEquations ==
    \/ /\ pc = "read"                                    \* lines 344-348: a line is read
       /\ \E line \in TokenLists :
             /\ tl' = line
             /\ tl1' = 1
             /\ stack' = <<Frame("acceptEquation", 1, biggestExponent)>>
       /\ pc' = "parse"
       /\ ret' = NoRet
       /\ prim' = NoPrim
       /\ UNCHANGED <<biggestExponent, output>>
    \/ /\ pc = "read"                                    \* line 344: the input is "!"
       /\ pc' = "done"
       /\ UNCHANGED <<tl, tl1, biggestExponent, stack, ret, prim, output>>
    \/ /\ pc = "parse" /\ stack = <<>>                   \* lines 348-370
       /\ IF ret.r = 1 /\ tl1 = Null(tl)
          THEN IF determineVariables(tl) = 1
               THEN /\ output' = InOneVariable(IF biggestExponent = 0
                                               THEN 1 ELSE biggestExponent)
                    /\ biggestExponent' = 0
               ELSE /\ output' = NotInOneVariable
                    /\ UNCHANGED biggestExponent
          ELSE /\ output' = NotAnEquation
               /\ UNCHANGED biggestExponent
       /\ pc' = "reported"
       /\ prim' = NoPrim
       /\ UNCHANGED <<tl, tl1, stack, ret>>
    \/ /\ pc = "reported"                                \* lines 371-374
       /\ pc' = "read"
       /\ tl' = <<>>
       /\ tl1' = 1
       /\ output' = NoOutput
       /\ ret' = NoRet
       /\ UNCHANGED <<biggestExponent, stack, prim>>

Init ==
    /\ pc = "read"
    /\ tl = <<>>
    /\ tl1 = 1
    /\ biggestExponent = 0
    /\ stack = <<>>
    /\ ret = NoRet
    /\ prim = NoPrim
    /\ output = NoOutput

Next ==
    \/ recognizeEquations
    \/ acceptEquation
    \/ acceptExpression
    \/ acceptTerm
    \/ acceptExponent

Spec == Init /\ [][Next]_vars

\* The matchers run to completion once called: the program is sequential and
\* nothing but the running matcher can take the next step.
Matchers == acceptEquation \/ acceptExpression \/ acceptTerm \/ acceptExponent

(***************************************************************************)
(* One call of acceptEquation (line 348) on any token list: the first      *)
(* call the program makes, biggestExponent being 0 still (line 228).       *)
(***************************************************************************)
InitCall ==
    /\ pc = "parse"
    /\ tl \in TokenLists
    /\ tl1 = 1
    /\ biggestExponent = 0
    /\ stack = <<Frame("acceptEquation", 1, biggestExponent)>>
    /\ ret = NoRet
    /\ prim = NoPrim
    /\ output = NoOutput

SpecCall == InitCall /\ [][Matchers]_vars /\ WF_vars(Matchers)

(***************************************************************************)
(* determineVariables on its own: applied to any token list (line 350      *)
(* applies it to the accepted ones only).                                  *)
(***************************************************************************)
InitVars ==
    /\ pc = "count"
    /\ tl \in TokenLists
    /\ tl1 = 1
    /\ biggestExponent = 0
    /\ stack = <<>>
    /\ ret = NoRet
    /\ prim = NoPrim
    /\ output = NoOutput

determineVariablesCall ==
    /\ pc = "count"
    /\ ret' = [fn |-> "determineVariables", r |-> determineVariables(tl),
               lp0 |-> 1, be0 |-> biggestExponent]
    /\ pc' = "counted"
    /\ UNCHANGED <<tl, tl1, biggestExponent, stack, prim, output>>

NextVars == determineVariablesCall

SpecVars == InitVars /\ [][NextVars]_vars

(***************************************************************************)
(* Vocabulary of the properties.                                           *)
(***************************************************************************)
Composite == {"acceptExponent", "acceptTerm", "acceptExpression", "acceptEquation"}
Primitive == {"acceptNumber", "acceptIdentifier", "acceptCharacter"}

IsSym(l, p, c) == p \in 1..Len(l) /\ l[p].tt = "Symbol" /\ l[p].symbol = c
IsNum(l, p) == p \in 1..Len(l) /\ l[p].tt = "Number"
IsId(l, p) == p \in 1..Len(l) /\ l[p].tt = "Identifier"
IsSign(l, p) == IsSym(l, p, "+") \/ IsSym(l, p, "-")

\* The driver's acceptance test of line 348, once acceptEquation has returned.
Accepted == ret.fn = "acceptEquation" /\ ret.r = 1 /\ tl1 = Null(tl)

\* The grammar, on the tokens i .. j-1 of l:
\*   term       ::= number [identifier ['^' number]] | identifier ['^' number]
\*   expression ::= ['-'] term {('+'|'-') term}
\*   equation   ::= expression '=' expression
IsTerm(l, i, j) ==
    \/ j = i + 1 /\ (IsNum(l, i) \/ IsId(l, i))
    \/ j = i + 2 /\ IsNum(l, i) /\ IsId(l, i + 1)
    \/ j = i + 3 /\ IsId(l, i) /\ IsSym(l, i + 1, "^") /\ IsNum(l, i + 2)
    \/ j = i + 4 /\ IsNum(l, i) /\ IsId(l, i + 1) /\ IsSym(l, i + 2, "^")
                 /\ IsNum(l, i + 3)

RECURSIVE IsTerms(_, _, _)
IsTerms(l, i, j) ==
    \E k \in (i + 1)..j :
        /\ IsTerm(l, i, k)
        /\ \/ k = j
           \/ k < j /\ IsSign(l, k) /\ IsTerms(l, k + 1, j)

IsExpression(l, i, j) ==
    \/ IsTerms(l, i, j)
    \/ IsSym(l, i, "-") /\ IsTerms(l, i + 1, j)

IsEquation(l) ==
    \E k \in 1..Len(l) :
        IsSym(l, k, "=") /\ IsExpression(l, 1, k) /\ IsExpression(l, k + 1, Null(l))

\* The exponent attached to the identifier at p: n when '^' n follows, else 1.
ExponentAt(l, p) ==
    IF IsSym(l, p + 1, "^") /\ IsNum(l, p + 2) THEN l[p + 2].number ELSE 1

\* The largest exponent attached to an identifier of l (l holds one).
Degree(l) ==
    CHOOSE d \in Numbers \cup {1} :
        /\ \E p \in 1..Len(l) : IsId(l, p) /\ ExponentAt(l, p) = d
        /\ \A p \in 1..Len(l) : IsId(l, p) => ExponentAt(l, p) <= d

(***************************************************************************)
(* C1: whenever acceptExponent, acceptTerm, acceptExpression or            *)
(* acceptEquation returns 0, the cursor is where it was at the call.       *)
(***************************************************************************)
C1_RejectKeepsCursor ==
    (ret.fn \in Composite /\ ret.r = 0) => tl1 = ret.lp0

(***************************************************************************)
(* C2: biggestExponent is 0 at the moment recognizeEquations calls         *)
(* acceptEquation on a line, whatever the lines before it were.            *)
(***************************************************************************)
C2_ZeroAtCall ==
    Running("acceptEquation", "entry") => biggestExponent = 0

(***************************************************************************)
(* C3: a line parsed from biggestExponent = 0 and reported as an equation  *)
(* in 1 variable is reported with the largest exponent attached to an      *)
(* occurrence of the variable (1 for an occurrence without '^').           *)
(***************************************************************************)
C3_DegreeIsLargestExponent ==
    (/\ pc = "reported"
     /\ output.kind = InOneVariable(0).kind
     /\ ret.be0 = 0)
        => output.degree = Degree(tl)

(***************************************************************************)
(* C4: the acceptance test of line 348 holds exactly for the token lists   *)
(* the grammar  equation ::= expression '=' expression  derives.           *)
(***************************************************************************)
C4_AcceptsExactlyGrammar ==
    ret.fn = "acceptEquation" => (Accepted <=> IsEquation(tl))

C4_Witness ==
    /\ Accepted
    /\ \E p \in 1..Len(tl) : IsSym(tl, p, "^")
    /\ IsEquation(tl)

(***************************************************************************)
(* C5: determineVariables returns 0 exactly for the lists without an       *)
(* identifier, 1 exactly for the lists whose identifiers (at least one)    *)
(* are all spelled alike, 2 exactly for the lists with two identifiers     *)
(* spelled differently.                                                    *)
(***************************************************************************)
C5_DetermineVariables ==
    ret.fn = "determineVariables" =>
        LET ids == {p \in 1..Len(tl) : IsId(tl, p)}
            differ == \E p \in ids, q \in ids : tl[p].identifier /= tl[q].identifier
        IN  /\ ret.r \in {0, 1, 2}
            /\ ret.r = 0 <=> ids = {}
            /\ ret.r = 1 <=> (ids /= {} /\ ~differ)
            /\ ret.r = 2 <=> differ

C5_Witness ==
    /\ ret.fn = "determineVariables"
    /\ ret.r = 2
    /\ \E p \in 1..Len(tl) : \E q \in (p + 1)..Len(tl) : \E u \in (q + 1)..Len(tl) :
          /\ IsId(tl, p) /\ IsId(tl, q) /\ IsId(tl, u)
          /\ tl[p].identifier = tl[q].identifier
          /\ tl[q].identifier /= tl[u].identifier

(***************************************************************************)
(* C6: acceptExponent called at a '^' that a '-' follows returns 0 and     *)
(* leaves biggestExponent as it was, and a line that holds a '^' followed  *)
(* by a '-' is reported as not an equation.                                *)
(***************************************************************************)
C6_NegativeExponentRejected ==
    /\ (/\ ret.fn = "acceptExponent"
        /\ IsSym(tl, ret.lp0, "^")
        /\ IsSym(tl, ret.lp0 + 1, "-"))
          => (ret.r = 0 /\ biggestExponent = ret.be0)
    /\ (/\ pc = "reported"
        /\ \E p \in 1..Len(tl) : IsSym(tl, p, "^") /\ IsSym(tl, p + 1, "-"))
          => output = NotAnEquation

C6_Witness ==
    /\ ret.fn = "acceptExponent"
    /\ IsSym(tl, ret.lp0, "^")
    /\ IsSym(tl, ret.lp0 + 1, "-")
    /\ IsNum(tl, ret.lp0 + 2)
    /\ ret.be0 < tl[ret.lp0 + 2].number

(***************************************************************************)
(* C7: a call of acceptNumber, acceptIdentifier or acceptCharacter(c)      *)
(* returns 1 and moves the cursor one token on when the token at the       *)
(* cursor exists and is of the kind (and symbol) asked for, and otherwise  *)
(* returns 0 and leaves the cursor; it changes neither biggestExponent nor *)
(* the tokens.                                                             *)
(***************************************************************************)
PrimMatches(l, p, q) ==
    \/ q.fn = "acceptNumber" /\ IsNum(l, p)
    \/ q.fn = "acceptIdentifier" /\ IsId(l, p)
    \/ q.fn = "acceptCharacter" /\ IsSym(l, p, q.c)

C7_PrimitiveMatchers ==
    [][prim'.fn \in Primitive =>
          /\ IF PrimMatches(tl, tl1, prim')
             THEN prim'.r = 1 /\ tl1' = tl1 + 1
             ELSE prim'.r = 0 /\ tl1' = tl1
          /\ biggestExponent' = biggestExponent
          /\ tl' = tl]_vars

C7_Witness ==
    /\ prim.fn = "acceptCharacter"
    /\ prim.r = 0
    /\ prim.c = "="
    /\ IsSym(tl, tl1, "^")

(***************************************************************************)
(* C8: while acceptEquation runs, biggestExponent never decreases: no step *)
(* lowers it, and it is never below its value at the call of any matcher   *)
(* still running.                                                          *)
(***************************************************************************)
C8_BiggestExponentMonotone ==
    [][stack /= <<>> =>
          /\ biggestExponent' >= biggestExponent
          /\ \A i \in 1..Len(stack) : biggestExponent' >= stack[i].be0]_vars

C8_Witness ==
    /\ prim.fn = "valueNumber"
    /\ prim.r = 1
    /\ tl[tl1 - 1].number < biggestExponent
    /\ tl[tl1 - 1].number > 0

(***************************************************************************)
(* C9: a call of acceptEquation terminates, and while it runs the cursor   *)
(* only moves forward and never past the end of the list.                  *)
(***************************************************************************)
C9_TerminatesCursorForward ==
    /\ [][stack /= <<>> => (tl1' >= tl1 /\ tl1' <= Null(tl))]_vars
    /\ <>(stack = <<>> /\ ret.fn = "acceptEquation")

C9_Witness ==
    /\ pc = "parse"
    /\ stack = <<>>
    /\ ret.fn = "acceptEquation"
    /\ ret.r = 1
    /\ tl1 = Null(tl)
    /\ \E p \in 1..Len(tl) : IsSym(tl, p, "+")

(***************************************************************************)
(* C10: a sign is accepted only as one optional leading '-' of an          *)
(* expression: a line in which a '+' or '-' directly follows a '+' or '-', *)
(* or in which an expression (the line, or what follows '=') starts with   *)
(* '+', is not accepted, while  - x = - n  is accepted.                    *)
(***************************************************************************)
C10_SingleLeadingMinus ==
    ret.fn = "acceptEquation" =>
        /\ (\/ \E p \in 1..Len(tl) : IsSign(tl, p) /\ IsSign(tl, p + 1)
            \/ IsSym(tl, 1, "+")
            \/ \E p \in 1..Len(tl) : IsSym(tl, p, "=") /\ IsSym(tl, p + 1, "+"))
              => ~Accepted
        /\ (\E n \in Numbers :
                tl = <<Sym("-"), Ident("x"), Sym("="), Sym("-"), Num(n)>>)
              => Accepted

C10_Witness ==
    /\ Accepted
    /\ tl = <<Sym("-"), Ident("x"), Sym("="), Sym("-"), Num(MaxNum)>>

====
